---- MODULE Spec2Model ----
(***************************************************************************)
(* Trigger instructions and queries of iroha_core::smartcontracts::isi::   *)
(* triggers, executed one after another against one WorldStateView.        *)
(* The trigger registry (TriggerSet: add, remove, get, mod_repeats) and    *)
(* WorldStateView::modify_triggers / execute_trigger are collaborators of  *)
(* that module; they are modelled from their documented contract.          *)
(***************************************************************************)
EXTENDS Integers, Sequences, FiniteSets, TLC

\* ------------------------------------------------------------------ bounds
\* Number of instructions executed in one run.
MaxSteps == 4

\* ------------------------------------------------------------------- u32
\* A u32 is kept as two 16-bit limbs <<hi, lo>> of value hi * Limb + lo, so
\* that the full 32-bit range and its overflow are exact.
Limb == 65536

U32(hi, lo) == <<hi, lo>>
U32Max == U32(Limb - 1, Limb - 1)
U32Values == (0..(Limb - 1)) \X (0..(Limb - 1))
IsU32(x) == x \in U32Values

\* The mathematical sum and difference of two u32 values, in the same limb
\* form; the high limb of a sum may reach Limb and more, that of a difference
\* is negative when the difference is.
Sum(x, y) ==
    LET lo == x[2] + y[2] IN <<x[1] + y[1] + (lo \div Limb), lo % Limb>>
Diff(x, y) ==
    LET lo == x[2] - y[2] IN <<x[1] - y[1] + (lo \div Limb), lo % Limb>>
Leq(x, y) == x[1] < y[1] \/ (x[1] = y[1] /\ x[2] <= y[2])

\* ------------------------------------------------------------------ values
TriggerIds == {"T1", "T2"}
AccountIds == {"alice", "bob"}
Amounts == {U32(0, 0), U32(0, 1), U32(0, 5), U32(0, 10), U32Max}
RegisterCounts == {U32(0, 1), U32(0, 3)}

Exactly(n) == [kind |-> "Exactly", n |-> n]
Indefinitely == [kind |-> "Indefinitely"]
RepeatsValues == {Exactly(n) : n \in RegisterCounts} \cup {Indefinitely}

\* EventFilter values: a time schedule without period (fires once, exactly at
\* its start), a time schedule with a period, and a non-time (data) filter.
ScheduleOnce == [kind |-> "Time", exec |-> "Schedule", period |-> "None"]
SchedulePeriodic == [kind |-> "Time", exec |-> "Schedule", period |-> "Some"]
DataFilter == [kind |-> "Data", exec |-> "None", period |-> "None"]
EventFilters == {ScheduleOnce, SchedulePeriodic, DataFilter}

\* Metadata: key -> value, as a set of <<key, value>> pairs with unique keys.
NoMetadata == {}
SomeMetadata == {<<"k1", "v1">>}

Action(f, r, account, md) ==
    [filter |-> f, repeats |-> r, technical_account |-> account, metadata |-> md]

\* The actions submitted for registration: every filter with every repeat
\* policy for one technical account, and one action of another account that
\* carries metadata.
Actions ==
    {Action(f, r, "alice", NoMetadata) : f \in EventFilters, r \in RepeatsValues}
        \cup {Action(DataFilter, Exactly(U32(0, 3)), "bob", SomeMetadata)}

\* Results: Ok(()) or Err(kind).
Ok == [ok |-> TRUE, err |-> "None"]
Err(e) == [ok |-> FALSE, err |-> e]
MathOverflow == "Math(Overflow)"
Repetition == "Repetition"
FindTrigger == "Find(Trigger)"

\* TriggerEvent
Created(id) == [kind |-> "Created", id |-> id]
Deleted(id) == [kind |-> "Deleted", id |-> id]
Extended(id) == [kind |-> "Extended", id |-> id]
Shortened(id) == [kind |-> "Shortened", id |-> id]

\* NotificationEvent::TriggerCompleted(TriggerCompletedEvent { trigger_id,
\* outcome }), with TriggerCompletedOutcome Success or Failure(String).
Reasons == {"", "x"}
Success == [type |-> "Success", reason |-> ""]
Failure(reason) == [type |-> "Failure", reason |-> reason]
Outcomes == {Success} \cup {Failure(r) : r \in Reasons}
TriggerCompleted(id, outcome) ==
    [kind |-> "TriggerCompleted", trigger_id |-> id, outcome |-> outcome]
NoNotification ==
    [kind |-> "None", trigger_id |-> "T1", outcome |-> Success]
NotificationEvents == {TriggerCompleted(id, o) : id \in TriggerIds, o \in Outcomes}

\* Option<T>
None == [some |-> FALSE, value |-> "None"]
Some(v) == [some |-> TRUE, value |-> v]

\* TriggerCompletedEventFilter { trigger_id: Option<TriggerId>,
\* outcome_type: Option<TriggerCompletedOutcomeType> }
TriggerCompletedEventFilters ==
    [trigger_id : {None} \cup {Some(id) : id \in TriggerIds},
     outcome_type : {None, Some("Success"), Some("Failure")}]

\* NotificationEventFilter
AcceptAll == [kind |-> "AcceptAll", filter |-> [trigger_id |-> None, outcome_type |-> None]]
TriggerCompletedFilter(f) == [kind |-> "TriggerCompleted", filter |-> f]
NotificationEventFilters ==
    {AcceptAll} \cup {TriggerCompletedFilter(f) : f \in TriggerCompletedEventFilters}

\* ------------------------------------------------------------------- state
VARIABLES
    triggers,     \* wsv.world.triggers: registered id -> Action
    events,       \* TriggerEvents the last instruction produced, in order
    requests,     \* execute_trigger requests that the engine has not run yet
    notification, \* NotificationEvent of the engine's run of such a request
    output,       \* Output of the last call, when it was a query
    registered,   \* ids registered with success and not unregistered since
    alive,        \* ids whose events so far end in a Created with no Deleted after
    instr,        \* the instruction or query executed last
    result,       \* what its execute returned
    before,       \* wsv.world.triggers before that instruction
    lastBurn,     \* the successful Burn directly before the last Mint, if any
    indefinite,   \* what mod_repeats does on Repeats::Indefinitely
    steps,        \* instructions executed so far
    call,         \* the filter type whose `matches` was called last
    flt,          \* the filter it was called on
    evt,          \* the event it was given
    matched,      \* what it returned
    task,         \* concurrent callers: the call each one makes
    pc,           \* where each one is in its call
    reply,        \* what each one's call returned
    gate,         \* the caller whose closure modify_triggers is running, or 0
    cres,         \* what that closure returned
    start         \* the registry the concurrent callers started from

wsvars == <<triggers, events, requests, notification, output, registered, alive,
            instr, result, before, lastBurn, indefinite, steps>>
fvars == <<call, flt, evt, matched>>
cvars == <<task, pc, reply, gate, cres, start>>
vars == <<wsvars, fvars, cvars>>

\* ------------------------------------------------------ Filter::matches
\* TriggerCompletedEventFilter::matches rejecting only when both the id and the
\* outcome disagree.
TriggerCompletedMatchesEither(self, event) ==
    ~(/\ self.trigger_id.some /\ self.trigger_id.value # event.trigger_id
      /\ \/ self.outcome_type = Some("Success") /\ event.outcome.type = "Failure"
         \/ self.outcome_type = Some("Failure") /\ event.outcome.type = "Success")

\* TriggerCompletedEventFilter::matches comparing the outcome with
\* Failure(String::new()) instead of its discriminant.
TriggerCompletedMatchesByValue(self, event) ==
    IF self.trigger_id.some /\ self.trigger_id.value # event.trigger_id
    THEN FALSE
    ELSE IF \/ self.outcome_type = Some("Success") /\ event.outcome # Success
            \/ self.outcome_type = Some("Failure") /\ event.outcome # Failure("")
    THEN FALSE
    ELSE TRUE

TriggerCompletedMatches(self, event) ==
    IF self.trigger_id.some /\ self.trigger_id.value # event.trigger_id
    THEN FALSE
    ELSE IF \/ self.outcome_type = Some("Success") /\ event.outcome.type = "Failure"
            \/ self.outcome_type = Some("Failure") /\ event.outcome.type = "Success"
    THEN FALSE
    ELSE TRUE

\* NotificationEventFilter::matches with the sub-filter not consulted.
NotificationMatchesAny(self, event) == TRUE

NotificationMatches(self, event) ==
    IF self.kind = "AcceptAll" THEN TRUE
    ELSE TriggerCompletedMatches(self.filter, event)

\* ------------------------------------------------- OccursExactlyAtTime
occurs_exactly_at_time(action) ==
    /\ action.filter.kind = "Time"
    /\ action.filter.exec = "Schedule"
    /\ action.filter.period = "None"

\* ---------------------------------------------------------- u32 arithmetic
\* u32::wrapping_add in place of checked_add.
wrapping_add(n, a) ==
    LET s == Sum(n, a) IN [ok |-> TRUE, value |-> <<s[1] % Limb, s[2]>>]

\* u32::checked_add: None when the sum does not fit in 32 bits.
checked_add(n, a) ==
    LET s == Sum(n, a)
    IN  IF s[1] >= Limb THEN [ok |-> FALSE, value |-> n]
        ELSE [ok |-> TRUE, value |-> s]

\* u32::saturating_sub in place of checked_sub.
saturating_sub(n, a) ==
    LET d == Diff(n, a)
    IN  [ok |-> TRUE, value |-> IF d[1] < 0 THEN U32(0, 0) ELSE d]

\* u32::checked_sub: None when the difference is negative.
checked_sub(n, a) ==
    LET d == Diff(n, a)
    IN  IF d[1] < 0 THEN [ok |-> FALSE, value |-> n]
        ELSE [ok |-> TRUE, value |-> d]

\* ------------------------------------------------------------ TriggerSet
\* add: fails on an id that is already present.
add(set, trigger) ==
    IF trigger.id \in DOMAIN set
    THEN [res |-> Err(Repetition), set |-> set]
    ELSE [res |-> Ok, set |-> (trigger.id :> trigger.action) @@ set]

\* remove: fails on an id that is not present.
remove(set, id) ==
    IF id \notin DOMAIN set
    THEN [res |-> Err(FindTrigger), set |-> set]
    ELSE [res |-> Ok, set |-> [i \in DOMAIN set \ {id} |-> set[i]]]

\* get: the action stored under id.
get(set, id) ==
    IF id \notin DOMAIN set
    THEN [res |-> Err(FindTrigger), action |-> <<>>]
    ELSE [res |-> Ok, action |-> set[id]]

\* mod_repeats: replaces the count n of Repeats::Exactly(n) by f[n] when f
\* succeeds. The contract does not say what happens on Repeats::Indefinitely:
\* `indefinite` fixes one of the two possible outcomes for the whole run.
mod_repeats(set, id, f) ==
    IF id \notin DOMAIN set
    THEN [res |-> Err(FindTrigger), set |-> set]
    ELSE IF set[id].repeats.kind = "Exactly"
    THEN LET r == f[set[id].repeats.n]
         IN  IF r.ok
             THEN [res |-> Ok,
                   set |-> [set EXCEPT ![id].repeats = Exactly(r.value)]]
             ELSE [res |-> Err(r.err), set |-> set]
    ELSE IF indefinite = "Unchanged"
    THEN [res |-> Ok, set |-> set]
    ELSE [res |-> Err(MathOverflow), set |-> set]

\* The closure handed to modify_triggers returns Ok(TriggerEvent) or Err; `set`
\* is the registry as the closure left it.
Done(set, event) == [res |-> Ok, set |-> set, event |-> event]
Fail(res, set) == [res |-> res, set |-> set, event |-> <<>>]

\* WorldStateView::modify_triggers: commits the closure's registry and
\* produces its event on Ok; on Err nothing of the closure's work is kept.
modify_triggers(wsv, closure) ==
    IF closure.res.ok
    THEN [result |-> Ok, triggers |-> closure.set,
          events |-> Append(wsv.events, closure.event)]
    ELSE [result |-> closure.res, triggers |-> wsv.triggers,
          events |-> wsv.events]

\* ------------------------------------------------------ isi: the closures
\* RegisterClosure with the result of add dropped instead of propagated.
RegisterClosureIgnoresAdd(set, new_trigger) ==
    Done(add(set, new_trigger).set, Created(new_trigger.id))

\* RegisterClosure putting the new trigger in the place of one registered
\* under the same id.
RegisterClosureReplaces(set, new_trigger) ==
    Done((new_trigger.id :> new_trigger.action) @@ set, Created(new_trigger.id))

RegisterClosure(set, new_trigger) ==
    LET trigger_id == new_trigger.id
        added == add(set, new_trigger)
    IN  IF ~added.res.ok THEN Fail(added.res, added.set)
        ELSE Done(added.set, Created(trigger_id))

\* UnregisterClosure with the result of remove dropped instead of propagated.
UnregisterClosureIgnoresRemove(set, object_id) ==
    Done(remove(set, object_id).set, Deleted(object_id))

UnregisterClosure(set, object_id) ==
    LET removed == remove(set, object_id)
    IN  IF ~removed.res.ok THEN Fail(removed.res, removed.set)
        ELSE Done(removed.set, Deleted(object_id))

\* |n| n.checked_add(self.object).ok_or(MathError::Overflow)
MintRepeats(n, object) ==
    LET r == checked_add(n, object)
    IN  [ok |-> r.ok, value |-> r.value, err |-> MathOverflow]

\* MintClosure without the exact-time check.
MintClosureUnchecked(set, id, object) ==
    LET found == get(set, id)
    IN  IF ~found.res.ok THEN Fail(found.res, set)
        ELSE LET modded == mod_repeats(set, id, [n \in U32Values |-> MintRepeats(n, object)])
             IN  IF ~modded.res.ok THEN Fail(modded.res, modded.set)
                 ELSE Done(modded.set, Extended(id))

\* MintClosure returning at once, without the lookup, when the amount is 0.
MintClosureZeroFirst(set, id, object) ==
    IF object = U32(0, 0) THEN Done(set, Extended(id))
    ELSE LET found == get(set, id)
         IN  IF ~found.res.ok THEN Fail(found.res, set)
             ELSE IF occurs_exactly_at_time(found.action)
             THEN Fail(Err(MathOverflow), set)
             ELSE LET modded == mod_repeats(set, id,
                                    [n \in U32Values |-> MintRepeats(n, object)])
                  IN  IF ~modded.res.ok THEN Fail(modded.res, modded.set)
                      ELSE Done(modded.set, Extended(id))

MintClosure(set, id, object) ==
    LET found == get(set, id)
    IN  IF ~found.res.ok THEN Fail(found.res, set)
        ELSE IF occurs_exactly_at_time(found.action)
        THEN Fail(Err(MathOverflow), set)
        ELSE LET modded == mod_repeats(set, id, [n \in U32Values |-> MintRepeats(n, object)])
             IN  IF ~modded.res.ok THEN Fail(modded.res, modded.set)
                 ELSE Done(modded.set, Extended(id))

\* The Burn closure with the subtraction refused already at n = object.
BurnRepeatsStrict(n, object) ==
    LET r == checked_sub(n, object)
    IN  [ok |-> r.ok /\ n # object, value |-> IF n = object THEN n ELSE r.value,
         err |-> MathOverflow]

\* |n| n.checked_sub(self.object).ok_or(MathError::Overflow)
BurnRepeats(n, object) ==
    LET r == checked_sub(n, object)
    IN  [ok |-> r.ok, value |-> r.value, err |-> MathOverflow]

\* BurnClosure returning the event of Mint.
BurnClosureExtended(set, trigger, object) ==
    LET modded == mod_repeats(set, trigger, [n \in U32Values |-> BurnRepeats(n, object)])
    IN  IF ~modded.res.ok THEN Fail(modded.res, modded.set)
        ELSE Done(modded.set, Extended(trigger))

\* BurnClosure with the exact-time check of Mint.
BurnClosureChecked(set, trigger, object) ==
    LET found == get(set, trigger)
    IN  IF found.res.ok /\ occurs_exactly_at_time(found.action)
        THEN Fail(Err(MathOverflow), set)
        ELSE LET modded == mod_repeats(set, trigger,
                               [n \in U32Values |-> BurnRepeats(n, object)])
             IN  IF ~modded.res.ok THEN Fail(modded.res, modded.set)
                 ELSE Done(modded.set, Shortened(trigger))

\* BurnClosure taking the trigger out of the registry when no repetition is
\* left.
BurnClosureRemovesExhausted(set, trigger, object) ==
    LET modded == mod_repeats(set, trigger, [n \in U32Values |-> BurnRepeats(n, object)])
    IN  IF ~modded.res.ok THEN Fail(modded.res, modded.set)
        ELSE IF modded.set[trigger].repeats = Exactly(U32(0, 0))
        THEN Done(remove(modded.set, trigger).set, Shortened(trigger))
        ELSE Done(modded.set, Shortened(trigger))

BurnClosure(set, trigger, object) ==
    LET modded == mod_repeats(set, trigger, [n \in U32Values |-> BurnRepeats(n, object)])
    IN  IF ~modded.res.ok THEN Fail(modded.res, modded.set)
        ELSE Done(modded.set, Shortened(trigger))

\* ------------------------------------------------------- isi: execute
\* Each returns the result and the world state (triggers, events) after it.
\* RegisterExecute with the repeat-policy check made after the insertion.
RegisterExecuteLateCheck(wsv, new_trigger) ==
    LET out == modify_triggers(wsv, RegisterClosure(wsv.triggers, new_trigger))
    IN  IF /\ occurs_exactly_at_time(new_trigger.action)
           /\ ~(new_trigger.action.repeats = Exactly(U32(0, 1)))
        THEN [out EXCEPT !.result = Err(MathOverflow)]
        ELSE out

\* RegisterExecute accepting Repeats::Exactly(_) instead of Repeats::Exactly(1).
RegisterExecuteAnyExactly(wsv, new_trigger) ==
    IF /\ occurs_exactly_at_time(new_trigger.action)
       /\ ~(new_trigger.action.repeats.kind = "Exactly")
    THEN [result |-> Err(MathOverflow), triggers |-> wsv.triggers,
          events |-> wsv.events]
    ELSE modify_triggers(wsv, RegisterClosure(wsv.triggers, new_trigger))

RegisterExecute(wsv, new_trigger) ==
    IF /\ occurs_exactly_at_time(new_trigger.action)
       /\ ~(new_trigger.action.repeats = Exactly(U32(0, 1)))
    THEN [result |-> Err(MathOverflow), triggers |-> wsv.triggers,
          events |-> wsv.events]
    ELSE modify_triggers(wsv, RegisterClosure(wsv.triggers, new_trigger))

UnregisterExecute(wsv, object_id) ==
    modify_triggers(wsv, UnregisterClosure(wsv.triggers, object_id))

MintExecute(wsv, destination_id, object) ==
    modify_triggers(wsv, MintClosure(wsv.triggers, destination_id, object))

BurnExecute(wsv, destination_id, object) ==
    modify_triggers(wsv, BurnClosure(wsv.triggers, destination_id, object))

\* WorldStateView::execute_trigger: the request is handed over, nothing is
\* returned.
execute_trigger(reqs, trigger_id, authority) ==
    reqs \cup {<<trigger_id, authority>>}

\* ExecuteTriggerBox::execute refusing an id that is not registered.
ExecuteTriggerExecuteChecked(wsv, reqs, trigger_id, authority) ==
    [result |-> IF trigger_id \in DOMAIN wsv.triggers THEN Ok
                ELSE Err(FindTrigger),
     triggers |-> wsv.triggers, events |-> wsv.events,
     requests |-> IF trigger_id \in DOMAIN wsv.triggers
                  THEN execute_trigger(reqs, trigger_id, authority) ELSE reqs]

ExecuteTriggerExecute(wsv, reqs, trigger_id, authority) ==
    [result |-> Ok, triggers |-> wsv.triggers, events |-> wsv.events,
     requests |-> execute_trigger(reqs, trigger_id, authority)]

\* ---------------------------------------------------------------- queries
\* FindAllActiveTriggerIds leaving out the triggers with no repetitions left.
FindAllActiveNonExhausted(set) ==
    {id \in DOMAIN set : set[id].repeats # Exactly(U32(0, 0))}

FindAllActiveTriggerIds(set) == DOMAIN set

\* The id expression evaluates to an id or fails to evaluate.
IdExpressions ==
    [ok : {TRUE}, value : TriggerIds] \cup {[ok |-> FALSE, value |-> "T1"]}
Evaluate == "Evaluate"

FindTriggerById(set, id_expr) ==
    IF ~id_expr.ok THEN [res |-> Err(Evaluate), output |-> <<>>]
    ELSE LET found == get(set, id_expr.value)
         IN  IF ~found.res.ok THEN [res |-> found.res, output |-> <<>>]
             ELSE [res |-> Ok,
                   output |-> [id |-> id_expr.value, action |-> found.action]]

\* The key expression evaluates to a metadata key or fails to evaluate.
MetadataKeys == {"k1", "k2"}
KeyExpressions ==
    [ok : {TRUE}, value : MetadataKeys] \cup {[ok |-> FALSE, value |-> "k1"]}
FindMetadataKey == "Find(MetadataKey)"

\* Metadata::get
MetadataGet(metadata, key) ==
    IF \E p \in metadata : p[1] = key
    THEN [found |-> TRUE, value |-> (CHOOSE p \in metadata : p[1] = key)[2]]
    ELSE [found |-> FALSE, value |-> ""]

\* FindTriggerKeyValueByIdAndKey with the key evaluated before the lookup of
\* the trigger.
FindTriggerKeyValueKeyFirst(set, id_expr, key_expr) ==
    IF ~id_expr.ok \/ ~key_expr.ok THEN [res |-> Err(Evaluate), output |-> ""]
    ELSE LET found == get(set, id_expr.value)
         IN  IF ~found.res.ok THEN [res |-> found.res, output |-> ""]
             ELSE LET value == MetadataGet(found.action.metadata, key_expr.value)
                  IN  IF value.found THEN [res |-> Ok, output |-> value.value]
                      ELSE [res |-> Err(FindMetadataKey), output |-> ""]

FindTriggerKeyValueByIdAndKey(set, id_expr, key_expr) ==
    IF ~id_expr.ok THEN [res |-> Err(Evaluate), output |-> ""]
    ELSE LET found == get(set, id_expr.value)
         IN  IF ~found.res.ok THEN [res |-> found.res, output |-> ""]
             ELSE IF ~key_expr.ok THEN [res |-> Err(Evaluate), output |-> ""]
             ELSE LET value == MetadataGet(found.action.metadata, key_expr.value)
                  IN  IF value.found THEN [res |-> Ok, output |-> value.value]
                      ELSE [res |-> Err(FindMetadataKey), output |-> ""]

\* ValidQuery::execute on `&WorldStateView`: the answer, and the world state
\* the query leaves.
Answered(wsv, answer) ==
    [result |-> answer.res, output |-> answer.output,
     triggers |-> wsv.triggers, events |-> wsv.events]

\* FindAllActiveTriggerIds moving the registry out of the world state instead of
\* cloning it.
FindAllActiveTriggerIdsTake(wsv) ==
    [result |-> Ok, output |-> FindAllActiveTriggerIds(wsv.triggers),
     triggers |-> <<>>, events |-> wsv.events]

FindAllActiveTriggerIdsExecute(wsv) ==
    Answered(wsv, [res |-> Ok, output |-> FindAllActiveTriggerIds(wsv.triggers)])

FindTriggerByIdExecute(wsv, id_expr) ==
    Answered(wsv, FindTriggerById(wsv.triggers, id_expr))

FindTriggerKeyValueByIdAndKeyExecute(wsv, id_expr, key_expr) ==
    Answered(wsv, FindTriggerKeyValueByIdAndKey(wsv.triggers, id_expr, key_expr))

\* ------------------------------------------------------------------ actions
\* Register, Unregister, Mint and Burn ignore the authority they are given
\* (`_authority`); only ExecuteTrigger passes it on.
\* The world state an instruction starts from: the registry as it is, and
\* nothing produced yet.
Wsv == [triggers |-> triggers, events |-> <<>>]
NoBurn ==
    [valid |-> FALSE, id |-> "T1", object |-> U32(0, 0), repeats |-> Indefinitely]
NoOutput == <<>>

Init ==
    /\ triggers = <<>>
    /\ events = <<>>
    /\ requests = {}
    /\ notification = NoNotification
    /\ output = NoOutput
    /\ registered = {}
    /\ alive = {}
    /\ instr = [op |-> "None"]
    /\ result = Ok
    /\ before = <<>>
    /\ lastBurn = NoBurn
    /\ indefinite \in {"Unchanged", "Overflow"}
    /\ steps = 0
    /\ call = "None"
    /\ flt = AcceptAll
    /\ evt = NoNotification
    /\ matched = FALSE
    /\ task = <<>>
    /\ pc = <<>>
    /\ reply = <<>>
    /\ gate = 0
    /\ cres = <<>>
    /\ start = <<>>

\* The ids that have a Created and no Deleted after it, once the events `evs`
\* have followed a stream of events in which these ids were `ids`.
AliveAfter(ids, evs) ==
    LET after[k \in 0..Len(evs)] ==
            IF k = 0 THEN ids
            ELSE IF evs[k].kind = "Created" THEN after[k - 1] \cup {evs[k].id}
            ELSE IF evs[k].kind = "Deleted" THEN after[k - 1] \ {evs[k].id}
            ELSE after[k - 1]
    IN  after[Len(evs)]

\* A call is made when the engine has run what was requested before.
CanCall == steps < MaxSteps /\ requests = {}

\* What every instruction does around its execute: the outcome is taken over
\* and the instruction, its result and the state before it are recorded.
Commit(i, out) ==
    /\ triggers' = out.triggers
    /\ events' = out.events
    /\ instr' = i
    /\ result' = out.result
    /\ before' = triggers
    /\ requests' = {}
    /\ notification' = NoNotification
    /\ output' = NoOutput
    /\ registered' =
          IF ~out.result.ok THEN registered
          ELSE IF i.op = "Register" THEN registered \cup {i.object.id}
          ELSE IF i.op = "Unregister" THEN registered \ {i.object_id}
          ELSE registered
    /\ alive' = AliveAfter(alive, out.events)
    /\ steps' = steps + 1
    /\ UNCHANGED <<indefinite, fvars, cvars>>

Register ==
    /\ CanCall
    /\ \E id \in TriggerIds, action \in Actions :
         LET new_trigger == [id |-> id, action |-> action]
         IN  /\ Commit([op |-> "Register", object |-> new_trigger],
                       RegisterExecute(Wsv, new_trigger))
             /\ lastBurn' = NoBurn

Unregister ==
    /\ CanCall
    /\ \E id \in TriggerIds :
         /\ Commit([op |-> "Unregister", object_id |-> id],
                   UnregisterExecute(Wsv, id))
         /\ lastBurn' = NoBurn

Mint ==
    /\ CanCall
    /\ \E id \in TriggerIds, object \in Amounts :
         /\ Commit([op |-> "Mint", destination_id |-> id, object |-> object],
                   MintExecute(Wsv, id, object))
         /\ lastBurn' = IF instr.op = "Burn" /\ result.ok THEN lastBurn ELSE NoBurn

Burn ==
    /\ CanCall
    /\ \E id \in TriggerIds, object \in Amounts :
         LET out == BurnExecute(Wsv, id, object)
         IN  /\ Commit([op |-> "Burn", destination_id |-> id, object |-> object],
                       out)
             /\ lastBurn' = IF out.result.ok
                            THEN [valid |-> TRUE, id |-> id, object |-> object,
                                  repeats |-> triggers[id].repeats]
                            ELSE NoBurn

ExecuteTrigger ==
    /\ CanCall
    /\ \E id \in TriggerIds, authority \in AccountIds :
         LET out == ExecuteTriggerExecute(Wsv, requests, id, authority)
         IN  /\ triggers' = out.triggers
             /\ events' = out.events
             /\ requests' = out.requests
             /\ instr' = [op |-> "ExecuteTrigger", trigger_id |-> id,
                          authority |-> authority]
             /\ result' = out.result
             /\ before' = triggers
             /\ notification' = NoNotification
             /\ output' = NoOutput
             /\ lastBurn' = NoBurn
             /\ steps' = steps + 1
             /\ UNCHANGED <<registered, alive, indefinite, fvars, cvars>>

\* What every query does around its execute.
Answer(q, out) ==
    /\ triggers' = out.triggers
    /\ events' = out.events
    /\ instr' = q
    /\ result' = out.result
    /\ output' = out.output
    /\ before' = triggers
    /\ requests' = {}
    /\ notification' = NoNotification
    /\ lastBurn' = NoBurn
    /\ steps' = steps + 1
    /\ UNCHANGED <<registered, alive, indefinite, fvars, cvars>>

QueryFindAllActiveTriggerIds ==
    /\ CanCall
    /\ Answer([op |-> "FindAllActiveTriggerIds"],
              FindAllActiveTriggerIdsExecute(Wsv))

QueryFindTriggerById ==
    /\ CanCall
    /\ \E id_expr \in IdExpressions :
         Answer([op |-> "FindTriggerById", id |-> id_expr],
                FindTriggerByIdExecute(Wsv, id_expr))

QueryFindTriggerKeyValueByIdAndKey ==
    /\ CanCall
    /\ \E id_expr \in IdExpressions, key_expr \in KeyExpressions :
         Answer([op |-> "FindTriggerKeyValueByIdAndKey", id |-> id_expr,
                 key |-> key_expr],
                FindTriggerKeyValueByIdAndKeyExecute(Wsv, id_expr, key_expr))

\* The execution engine runs a requested trigger and reports how the run
\* ended as a notification; nothing is returned to the instruction.
CompleteTrigger ==
    /\ requests # {}
    /\ \E req \in requests, outcome \in Outcomes :
         /\ notification' = TriggerCompleted(req[1], outcome)
         /\ requests' = requests \ {req}
    /\ UNCHANGED <<triggers, events, output, registered, alive, instr, result, before,
                   lastBurn, indefinite, steps, fvars, cvars>>

Next ==
    \/ Register \/ Unregister \/ Mint \/ Burn \/ ExecuteTrigger
    \/ CompleteTrigger
    \/ QueryFindAllActiveTriggerIds \/ QueryFindTriggerById
    \/ QueryFindTriggerKeyValueByIdAndKey

Spec == Init /\ [][Next]_vars

\* ------------------------------------------------- delivery of notifications
\* The event pipeline asks a subscriber's filter whether it accepts an event.
MatchNotification ==
    \E f \in NotificationEventFilters, e \in NotificationEvents :
        /\ call' = "NotificationEventFilter"
        /\ flt' = f
        /\ evt' = e
        /\ matched' = NotificationMatches(f, e)
        /\ UNCHANGED <<wsvars, cvars>>

MatchTriggerCompleted ==
    \E f \in TriggerCompletedEventFilters, e \in NotificationEvents :
        /\ call' = "TriggerCompletedEventFilter"
        /\ flt' = TriggerCompletedFilter(f)
        /\ evt' = e
        /\ matched' = TriggerCompletedMatches(f, e)
        /\ UNCHANGED <<wsvars, cvars>>

NextFilter == MatchNotification \/ MatchTriggerCompleted

SpecFilter == Init /\ [][NextFilter]_vars

\* ------------------------------------------------------ concurrent callers
\* Several callers share one world state. An instruction's execute runs what
\* stands before its call of modify_triggers on its own, then hands its closure
\* to modify_triggers, which runs one closure at a time and commits what the
\* closure returned. A query reads the registry in one step.
Procs == {1, 2, 3}

\* What the callers may call: two registrations, one of them of a one-shot
\* trigger, an unregistration, a Mint, a Burn, two queries, and the
\* registration of a one-shot trigger that is to repeat 3 times.
ConcTasks ==
    << [op |-> "Register",
        object |-> [id |-> "T1",
                    action |-> Action(ScheduleOnce, Exactly(U32(0, 1)), "alice",
                                      NoMetadata)]],
       [op |-> "Register",
        object |-> [id |-> "T2",
                    action |-> Action(DataFilter, Exactly(U32(0, 3)), "alice",
                                      NoMetadata)]],
       [op |-> "Unregister", object_id |-> "T1"],
       [op |-> "Mint", destination_id |-> "T1", object |-> U32(0, 5)],
       [op |-> "Burn", destination_id |-> "T1", object |-> U32(0, 5)],
       [op |-> "FindAllActiveTriggerIds"],
       [op |-> "FindTriggerById", id |-> [ok |-> TRUE, value |-> "T1"]],
       [op |-> "Register",
        object |-> [id |-> "T1",
                    action |-> Action(ScheduleOnce, Exactly(U32(0, 3)), "alice",
                                      NoMetadata)]] >>

\* The registries the callers may find: none registered, or T1 registered.
StartRegistries ==
    {<<>>,
     "T1" :> Action(DataFilter, Exactly(U32(0, 3)), "alice", NoMetadata)}

IsQueryTask(t) == t.op \in {"FindAllActiveTriggerIds", "FindTriggerById"}

\* Mint::execute with the lookup and the exact-time check made before the call
\* of modify_triggers, and only mod_repeats left in the closure.
MintCallChecksOutside(phase, set, id, object) ==
    IF phase = "before"
    THEN LET found == get(set, id)
         IN  IF ~found.res.ok THEN Fail(found.res, set)
             ELSE IF occurs_exactly_at_time(found.action)
             THEN Fail(Err(MathOverflow), set)
             ELSE Done(set, <<>>)
    ELSE LET modded == mod_repeats(set, id,
                           [n \in U32Values |-> MintRepeats(n, object)])
         IN  IF ~modded.res.ok THEN Fail(modded.res, modded.set)
             ELSE Done(modded.set, Extended(id))

\* The two parts of each execute: "before" is what runs before modify_triggers
\* is called, "inside" is the closure. `set` is the registry as it is when the
\* part runs. A part that fails ends the call with its error.
\* Register::execute with the repeat-policy check made inside the closure,
\* before the insertion.
RegisterCallChecksInside(phase, set, new_trigger) ==
    IF phase = "before" THEN Done(set, <<>>)
    ELSE IF /\ occurs_exactly_at_time(new_trigger.action)
            /\ ~(new_trigger.action.repeats = Exactly(U32(0, 1)))
         THEN Fail(Err(MathOverflow), set)
         ELSE RegisterClosure(set, new_trigger)

RegisterCall(phase, set, new_trigger) ==
    IF phase = "before"
    THEN IF /\ occurs_exactly_at_time(new_trigger.action)
            /\ ~(new_trigger.action.repeats = Exactly(U32(0, 1)))
         THEN Fail(Err(MathOverflow), set)
         ELSE Done(set, <<>>)
    ELSE RegisterClosure(set, new_trigger)

UnregisterCall(phase, set, object_id) ==
    IF phase = "before" THEN Done(set, <<>>)
    ELSE UnregisterClosure(set, object_id)

MintCall(phase, set, id, object) ==
    IF phase = "before" THEN Done(set, <<>>)
    ELSE MintClosure(set, id, object)

BurnCall(phase, set, trigger, object) ==
    IF phase = "before" THEN Done(set, <<>>)
    ELSE BurnClosure(set, trigger, object)

TaskCall(phase, set, t) ==
    CASE t.op = "Register" -> RegisterCall(phase, set, t.object)
      [] t.op = "Unregister" -> UnregisterCall(phase, set, t.object_id)
      [] t.op = "Mint" -> MintCall(phase, set, t.destination_id, t.object)
      [] t.op = "Burn" -> BurnCall(phase, set, t.destination_id, t.object)

\* The answer of a query on the registry it reads.
QueryAnswer(set, t) ==
    LET wsv == [triggers |-> set, events |-> <<>>]
        out == IF t.op = "FindAllActiveTriggerIds"
               THEN FindAllActiveTriggerIdsExecute(wsv)
               ELSE FindTriggerByIdExecute(wsv, t.id)
    IN  [result |-> out.result, output |-> out.output]

NoReply == [result |-> Ok, output |-> NoOutput]

InitConc ==
    /\ start \in StartRegistries
    /\ triggers = start
    /\ events = <<>>
    /\ requests = {}
    /\ notification = NoNotification
    /\ output = NoOutput
    /\ registered = DOMAIN start
    /\ alive = DOMAIN start
    /\ instr = [op |-> "None"]
    /\ result = Ok
    /\ before = <<>>
    /\ lastBurn = NoBurn
    /\ indefinite \in {"Unchanged", "Overflow"}
    /\ steps = 0
    /\ call = "None"
    /\ flt = AcceptAll
    /\ evt = NoNotification
    /\ matched = FALSE
    /\ task \in {f \in [Procs -> 1..Len(ConcTasks)] :
                    \A p, q \in Procs : p <= q => f[p] <= f[q]}
    /\ pc = [p \in Procs |-> "start"]
    /\ reply = [p \in Procs |-> NoReply]
    /\ gate = 0
    /\ cres = Done(<<>>, <<>>)

ovars ==
    <<requests, notification, output, registered, alive, instr, result, before,
      lastBurn, indefinite, steps, fvars, task, start>>

\* A caller starts its instruction: the part of execute before modify_triggers.
CallInstruction(p) ==
    /\ pc[p] = "start"
    /\ ~IsQueryTask(ConcTasks[task[p]])
    /\ LET r == TaskCall("before", triggers, ConcTasks[task[p]])
       IN  IF r.res.ok
           THEN /\ pc' = [pc EXCEPT ![p] = "enter"]
                /\ UNCHANGED reply
           ELSE /\ pc' = [pc EXCEPT ![p] = "done"]
                /\ reply' = [reply EXCEPT ![p] =
                                 [result |-> r.res, output |-> NoOutput]]
    /\ UNCHANGED <<triggers, events, gate, cres, ovars>>

\* modify_triggers takes the caller's closure when it runs no other, and runs
\* it on the registry as it is.
EnterModify(p) ==
    /\ pc[p] = "enter"
    /\ gate = 0
    /\ gate' = p
    /\ cres' = TaskCall("inside", triggers, ConcTasks[task[p]])
    /\ pc' = [pc EXCEPT ![p] = "inside"]
    /\ UNCHANGED <<triggers, events, reply, ovars>>

\* modify_triggers commits what the closure returned and gives the result back.
ExitModify(p) ==
    /\ pc[p] = "inside"
    /\ gate = p
    /\ LET out == modify_triggers([triggers |-> triggers, events |-> events],
                                  cres)
       IN  /\ triggers' = out.triggers
           /\ events' = out.events
           /\ reply' = [reply EXCEPT ![p] =
                            [result |-> out.result, output |-> NoOutput]]
    /\ gate' = 0
    /\ cres' = Done(<<>>, <<>>)
    /\ pc' = [pc EXCEPT ![p] = "done"]
    /\ UNCHANGED ovars

\* A query reads the registry, whether or not a closure is running.
AskQuery(p) ==
    /\ pc[p] = "start"
    /\ IsQueryTask(ConcTasks[task[p]])
    /\ reply' = [reply EXCEPT ![p] = QueryAnswer(triggers, ConcTasks[task[p]])]
    /\ pc' = [pc EXCEPT ![p] = "done"]
    /\ UNCHANGED <<triggers, events, gate, cres, ovars>>

NextConc ==
    \E p \in Procs :
        \/ CallInstruction(p)
        \/ EnterModify(p)
        \/ ExitModify(p)
        \/ AskQuery(p)

SpecConc == InitConc /\ [][NextConc]_vars

TypeOK ==
    /\ DOMAIN triggers \subseteq TriggerIds
    /\ steps \in 0..MaxSteps
    /\ Len(events) <= steps

\* ================================================================== claims
\* The id the last instruction names.
InstrId ==
    CASE instr.op = "Register" -> instr.object.id
      [] instr.op = "Unregister" -> instr.object_id
      [] instr.op \in {"Mint", "Burn"} -> instr.destination_id
      [] instr.op = "ExecuteTrigger" -> instr.trigger_id
      [] OTHER -> "T1"

Mutating == instr.op \in {"Register", "Unregister", "Mint", "Burn"}

\* A one-shot trigger: its filter is a time schedule without a period.
IsOneShot(action) == action.filter = ScheduleOnce
ExactlyOne == Exactly(U32(0, 1))

\* The registry away from one id.
SameElsewhere(id) ==
    /\ DOMAIN triggers \ {id} = DOMAIN before \ {id}
    /\ \A i \in DOMAIN triggers \ {id} : triggers[i] = before[i]

\* C1: in every reachable state, every registered trigger whose filter is a
\* time schedule without period has repeat policy Exactly(1).
C1_OneShotHasRepeatsOne ==
    \A id \in DOMAIN triggers :
        IsOneShot(triggers[id]) => triggers[id].repeats = ExactlyOne

\* C2: a Register, Unregister, Mint or Burn that returned an error left the
\* registry as it was before the call and produced no TriggerEvent.
C2_FailureLeavesNoTrace ==
    (Mutating /\ ~result.ok) => (triggers = before /\ events = <<>>)

C2_Witness ==
    /\ instr.op = "Register"
    /\ ~result.ok
    /\ result.err = MathOverflow
    /\ DOMAIN before # {}
    /\ InstrId \notin DOMAIN before

\* C3: Register of a one-shot trigger succeeds only with repeat policy
\* Exactly(1); with any other policy it fails with Math(Overflow) and the
\* registry is unchanged.
C3_OneShotRegister ==
    (instr.op = "Register" /\ IsOneShot(instr.object.action)) =>
        /\ result.ok => instr.object.action.repeats = ExactlyOne
        /\ instr.object.action.repeats # ExactlyOne =>
              /\ result = Err(MathOverflow)
              /\ triggers = before

C3_Witness ==
    /\ instr.op = "Register"
    /\ IsOneShot(instr.object.action)
    /\ instr.object.action.repeats = Exactly(U32(0, 3))
    /\ result = Err(MathOverflow)
    /\ \E other \in DOMAIN before :
          IsOneShot(before[other]) /\ before[other].repeats = ExactlyOne

\* C4 as stated: a Register whose id is already registered fails with the
\* duplicate error and leaves the registered trigger as it was.
C4_DuplicateIsRepetition ==
    (instr.op = "Register" /\ InstrId \in DOMAIN before) =>
        (result = Err(Repetition) /\ triggers = before)

\* C4 as amended: a Register whose id is already registered fails and leaves
\* the registry (action, repeats, technical account, metadata of the id) as it
\* was; the error is the duplicate error, unless the submitted trigger is
\* one-shot with a repeat policy other than Exactly(1), where it is
\* Math(Overflow).
C4_DuplicateFails ==
    (instr.op = "Register" /\ InstrId \in DOMAIN before) =>
        /\ ~result.ok
        /\ triggers = before
        /\ result.err =
              IF /\ IsOneShot(instr.object.action)
                 /\ instr.object.action.repeats # ExactlyOne
              THEN MathOverflow ELSE Repetition

C4_Witness ==
    /\ instr.op = "Register"
    /\ InstrId \in DOMAIN before
    /\ result = Err(Repetition)
    /\ before[InstrId].technical_account # instr.object.action.technical_account
    /\ before[InstrId].metadata # instr.object.action.metadata
    /\ triggers[InstrId] = before[InstrId]

\* C5: Mint on a registered one-shot trigger fails for every amount, 0
\* included, and leaves its repeat count unchanged.
C5_MintOneShotFails ==
    (instr.op = "Mint" /\ InstrId \in DOMAIN before
        /\ IsOneShot(before[InstrId])) =>
        /\ result = Err(MathOverflow)
        /\ triggers = before

C5_Witness ==
    /\ instr.op = "Mint"
    /\ instr.object = U32(0, 0)
    /\ InstrId \in DOMAIN before
    /\ IsOneShot(before[InstrId])
    /\ ~result.ok

\* C6: Burn(id, a) on a registered trigger with count n succeeds exactly when
\* a <= n and then leaves n - a; otherwise it fails with Math(Overflow) and the
\* count stays n.
C6_BurnChecked ==
    (instr.op = "Burn" /\ InstrId \in DOMAIN before
        /\ before[InstrId].repeats.kind = "Exactly") =>
        LET n == before[InstrId].repeats.n
            a == instr.object
        IN  /\ result.ok <=> Leq(a, n)
            /\ result.ok => triggers[InstrId].repeats = Exactly(Diff(n, a))
            /\ ~result.ok =>
                  /\ result = Err(MathOverflow)
                  /\ triggers[InstrId].repeats = Exactly(n)

\* Burn(10) on the count 7 that Register(3), Burn(1), Mint(5) left.
C6_Witness ==
    /\ instr.op = "Burn"
    /\ instr.object = U32(0, 10)
    /\ InstrId \in DOMAIN before
    /\ before[InstrId].repeats = Exactly(U32(0, 7))
    /\ result = Err(MathOverflow)
    /\ triggers[InstrId].repeats = Exactly(U32(0, 7))
    /\ steps = 4

\* C7: every repeat count is a u32; Mint(id, a) on a trigger that is not
\* one-shot, with count n, leaves n + a when that fits in 32 bits and
\* otherwise fails with Math(Overflow) leaving n.
C7_MintChecked ==
    /\ \A id \in DOMAIN triggers :
          triggers[id].repeats.kind = "Exactly" => IsU32(triggers[id].repeats.n)
    /\ (instr.op = "Mint" /\ InstrId \in DOMAIN before
          /\ ~IsOneShot(before[InstrId])
          /\ before[InstrId].repeats.kind = "Exactly") =>
          LET n == before[InstrId].repeats.n
              a == instr.object
          IN  IF Leq(Sum(n, a), U32Max)
              THEN result.ok /\ triggers[InstrId].repeats = Exactly(Sum(n, a))
              ELSE /\ result = Err(MathOverflow)
                   /\ triggers[InstrId].repeats = Exactly(n)

C7_Witness ==
    /\ instr.op = "Mint"
    /\ InstrId \in DOMAIN before
    /\ before[InstrId].repeats = Exactly(U32Max)
    /\ instr.object = U32(0, 1)
    /\ result = Err(MathOverflow)

\* C8: a successful Burn(id, a) directly followed by a successful Mint(id, a)
\* leaves the repeat count the Burn started from; on a one-shot trigger the
\* Mint of such a pair fails.
BurnThenMint ==
    /\ instr.op = "Mint"
    /\ lastBurn.valid
    /\ lastBurn.id = instr.destination_id
    /\ lastBurn.object = instr.object

C8_BurnMintRoundTrip ==
    BurnThenMint =>
        /\ result.ok => triggers[InstrId].repeats = lastBurn.repeats
        /\ IsOneShot(before[InstrId]) => ~result.ok

C8_Witness ==
    /\ BurnThenMint
    /\ result.ok
    /\ instr.object = U32(0, 1)
    /\ triggers[InstrId].repeats = Exactly(U32(0, 1))
    /\ before[InstrId].repeats = Exactly(U32(0, 0))

\* C9: Unregister of an id that is not registered fails with the not-found
\* error and changes nothing; Unregister of a registered id removes it:
\* FindTriggerById for it then fails with not-found and
\* FindAllActiveTriggerIds does not contain it.
C9_Unregister ==
    instr.op = "Unregister" =>
        IF InstrId \in DOMAIN before
        THEN /\ result.ok
             /\ FindTriggerById(triggers, [ok |-> TRUE, value |-> InstrId]).res
                   = Err(FindTrigger)
             /\ InstrId \notin FindAllActiveTriggerIds(triggers)
             /\ SameElsewhere(InstrId)
        ELSE result = Err(FindTrigger) /\ triggers = before

C9_Witness ==
    /\ instr.op = "Unregister"
    /\ result.ok
    /\ InstrId \in DOMAIN before
    /\ DOMAIN triggers # {}

\* C10: a successful Register, Unregister, Mint or Burn produces exactly one
\* TriggerEvent, which carries the instruction's trigger id and is Created,
\* Deleted, Extended, Shortened respectively.
EventOf(op, id) ==
    CASE op = "Register" -> Created(id)
      [] op = "Unregister" -> Deleted(id)
      [] op = "Mint" -> Extended(id)
      [] op = "Burn" -> Shortened(id)

C10_OneEventPerSuccess ==
    (Mutating /\ result.ok) => events = <<EventOf(instr.op, InstrId)>>

C10_Witness ==
    /\ instr.op = "Burn"
    /\ result.ok
    /\ events = <<Shortened(InstrId)>>
    /\ before[InstrId].repeats # triggers[InstrId].repeats

\* C11: ExecuteTrigger returns Ok for every trigger id, registered or not, and
\* every authority; it hands the request to the world state and changes
\* nothing else. How the requested run ended, Failure included, appears only
\* in the engine's TriggerCompleted notification for that id, never in the
\* result of the instruction.
C11_ExecuteTriggerAlwaysOk ==
    instr.op = "ExecuteTrigger" =>
        /\ result = Ok
        /\ triggers = before
        /\ events = <<>>
        /\ \/ /\ requests = {<<instr.trigger_id, instr.authority>>}
              /\ notification = NoNotification
           \/ /\ requests = {}
              /\ notification \in
                    {TriggerCompleted(instr.trigger_id, o) : o \in Outcomes}

C11_Witness ==
    /\ instr.op = "ExecuteTrigger"
    /\ instr.trigger_id \notin DOMAIN triggers
    /\ DOMAIN triggers # {}
    /\ notification = TriggerCompleted(instr.trigger_id, Failure("x"))
    /\ result = Ok

\* C13: FindAllActiveTriggerIds, FindTriggerById and
\* FindTriggerKeyValueByIdAndKey leave the world state as it was, whether
\* they succeed or fail: the same registry, and no event produced.
IsQuery ==
    instr.op \in {"FindAllActiveTriggerIds", "FindTriggerById",
                  "FindTriggerKeyValueByIdAndKey"}

C13_QueriesChangeNothing ==
    IsQuery => (triggers = before /\ events = <<>> /\ requests = {})

C13_Witness ==
    /\ instr.op = "FindAllActiveTriggerIds"
    /\ result.ok
    /\ output = TriggerIds
    /\ triggers = before

\* C17: FindAllActiveTriggerIds returns exactly the ids that were registered
\* with success and not unregistered with success since; a failed
\* instruction, a Mint, a Burn and an ExecuteTrigger neither add nor remove
\* an id.
C17_ActiveIdsAreRegisteredIds ==
    /\ FindAllActiveTriggerIds(triggers) = registered
    /\ instr.op = "FindAllActiveTriggerIds" => (result.ok /\ output = registered)
    /\ (instr.op \in {"Mint", "Burn", "ExecuteTrigger"} \/ ~result.ok) =>
          FindAllActiveTriggerIds(triggers) = FindAllActiveTriggerIds(before)

\* Asked after T1 was registered, burnt to 0 and T2 registered.
C17_Witness ==
    /\ instr.op = "FindAllActiveTriggerIds"
    /\ output = TriggerIds
    /\ registered = TriggerIds
    /\ \E id \in DOMAIN triggers : triggers[id].repeats = Exactly(U32(0, 0))

\* C18: FindTriggerKeyValueByIdAndKey returns the metadata value stored under
\* the key of a registered trigger; it fails with the trigger not-found error
\* when the id is not registered, whatever the key expression is, and with
\* the metadata-key-not-found error when the trigger has no value for the key.
C18_KeyValue ==
    (instr.op = "FindTriggerKeyValueByIdAndKey" /\ instr.id.ok) =>
        IF instr.id.value \notin DOMAIN before
        THEN result = Err(FindTrigger)
        ELSE instr.key.ok =>
             LET metadata == before[instr.id.value].metadata
             IN  IF \E p \in metadata : p[1] = instr.key.value
                 THEN result.ok /\ <<instr.key.value, output>> \in metadata
                 ELSE result = Err(FindMetadataKey)

C18_Witness ==
    /\ instr.op = "FindTriggerKeyValueByIdAndKey"
    /\ result.ok
    /\ output = "v1"
    /\ instr.key.value = "k1"

\* C20: Burn has no one-shot restriction. On a registered one-shot trigger
\* with count 1, Burn(id, a) succeeds for a = 0 and a = 1, producing
\* Shortened and leaving 1 - a, and fails with Math(Overflow) for a > 1;
\* Mint on such a trigger fails.
OneShotAtOne ==
    /\ InstrId \in DOMAIN before
    /\ IsOneShot(before[InstrId])
    /\ before[InstrId].repeats = ExactlyOne

C20_BurnOneShot ==
    /\ (instr.op = "Burn" /\ OneShotAtOne) =>
          IF instr.object \in {U32(0, 0), U32(0, 1)}
          THEN /\ result.ok
               /\ events = <<Shortened(InstrId)>>
               /\ triggers[InstrId].repeats =
                     IF instr.object = U32(0, 0) THEN ExactlyOne
                     ELSE Exactly(U32(0, 0))
          ELSE /\ result = Err(MathOverflow)
               /\ triggers = before
    /\ (instr.op = "Mint" /\ OneShotAtOne) => ~result.ok

C20_Witness ==
    /\ instr.op = "Burn"
    /\ OneShotAtOne
    /\ instr.object = U32(0, 1)
    /\ result.ok
    /\ IsOneShot(triggers[InstrId])
    /\ triggers[InstrId].repeats = Exactly(U32(0, 0))

\* C14: a TriggerCompletedEventFilter matches a TriggerCompleted event if and
\* only if its trigger_id is None or the event's id, and its outcome_type is
\* None or the event's outcome kind. So {Some(X), None} matches exactly the
\* events of X, {None, Some(Failure)} exactly the Failure events, {None, None}
\* every event, and {Some(T1), Some(Success)} rejects a Failure of T1.
IdAgrees == ~flt.filter.trigger_id.some \/ flt.filter.trigger_id.value = evt.trigger_id
OutcomeAgrees ==
    ~flt.filter.outcome_type.some \/ flt.filter.outcome_type.value = evt.outcome.type

C14_TriggerCompletedMatch ==
    call = "TriggerCompletedEventFilter" =>
        /\ matched <=> (IdAgrees /\ OutcomeAgrees)
        /\ (flt.filter.outcome_type = None /\ flt.filter.trigger_id.some) =>
              (matched <=> evt.trigger_id = flt.filter.trigger_id.value)
        /\ flt.filter = [trigger_id |-> None, outcome_type |-> Some("Failure")] =>
              (matched <=> evt.outcome.type = "Failure")
        /\ flt.filter = [trigger_id |-> None, outcome_type |-> None] => matched
        /\ (/\ flt.filter = [trigger_id |-> Some("T1"), outcome_type |-> Some("Success")]
            /\ evt.trigger_id = "T1" /\ evt.outcome.type = "Failure") => ~matched

C14_Witness ==
    /\ call = "TriggerCompletedEventFilter"
    /\ flt.filter = [trigger_id |-> Some("T1"), outcome_type |-> Some("Success")]
    /\ evt = TriggerCompleted("T1", Failure("x"))
    /\ ~matched

\* C15: NotificationEventFilter::AcceptAll matches every NotificationEvent,
\* whatever its trigger id and outcome; TriggerCompleted(f) matches an event
\* exactly when f matches it.
C15_NotificationMatch ==
    call = "NotificationEventFilter" =>
        /\ flt = AcceptAll => matched
        /\ flt.kind = "TriggerCompleted" =>
              (matched <=> (IdAgrees /\ OutcomeAgrees))

C15_Witness ==
    /\ call = "NotificationEventFilter"
    /\ flt.kind = "TriggerCompleted"
    /\ flt.filter.trigger_id = Some("T2")
    /\ evt.trigger_id = "T1"
    /\ ~matched

\* C16: two TriggerCompleted events of the same trigger id that both have
\* outcome Failure, with different reasons, get the same answer from every
\* filter.
WithReason(e, r) == TriggerCompleted(e.trigger_id, Failure(r))

C16_ReasonIgnored ==
    (call # "None" /\ evt.outcome.type = "Failure") =>
        \A r \in Reasons :
            matched =
                IF call = "NotificationEventFilter"
                THEN NotificationMatches(flt, WithReason(evt, r))
                ELSE TriggerCompletedMatches(flt.filter, WithReason(evt, r))

C16_Witness ==
    /\ call = "TriggerCompletedEventFilter"
    /\ flt.filter.outcome_type = Some("Failure")
    /\ evt.outcome = Failure("x")
    /\ matched

\* What a call returns and leaves when it runs alone on the registry `set`.
SeqApply(t, set) ==
    LET wsv == [triggers |-> set, events |-> <<>>]
        out == CASE t.op = "Register" -> RegisterExecute(wsv, t.object)
                 [] t.op = "Unregister" -> UnregisterExecute(wsv, t.object_id)
                 [] t.op = "Mint" ->
                        MintExecute(wsv, t.destination_id, t.object)
                 [] t.op = "Burn" ->
                        BurnExecute(wsv, t.destination_id, t.object)
                 [] t.op = "FindAllActiveTriggerIds" ->
                        FindAllActiveTriggerIdsExecute(wsv)
                 [] t.op = "FindTriggerById" ->
                        FindTriggerByIdExecute(wsv, t.id)
    IN  [result |-> out.result, triggers |-> out.triggers,
         events |-> out.events,
         output |-> IF IsQueryTask(t) THEN out.output ELSE NoOutput]

\* The callers that have returned, and the orders in which they can be lined up.
Returned == {p \in Procs : pc[p] = "done"}
Orders(ps) ==
    {o \in [1..Cardinality(ps) -> ps] :
        \A i, j \in 1..Cardinality(ps) : i # j => o[i] # o[j]}

\* The calls of `order` run one after the other from the registry `start`.
SerialRun(order) ==
    LET run[k \in 0..Len(order)] ==
            IF k = 0
            THEN [triggers |-> start, events |-> <<>>, replies |-> <<>>]
            ELSE LET prev == run[k - 1]
                     out == SeqApply(ConcTasks[task[order[k]]], prev.triggers)
                 IN  [triggers |-> out.triggers,
                      events |-> prev.events \o out.events,
                      replies |-> prev.replies @@
                          (order[k] :> [result |-> out.result,
                                        output |-> out.output])]
    IN  run[Len(order)]

\* C12: at most one closure is inside modify_triggers at a time, and at every
\* moment the registry, the events produced and what the returned callers were
\* given (queries included) are those of running the returned calls one after
\* the other in some order: nothing of a closure that is still running, or
\* that failed, is in the registry or in any answer.
C12_Serializable ==
    /\ Cardinality({p \in Procs : pc[p] = "inside"}) <= 1
    /\ \A p \in Procs : pc[p] = "inside" <=> gate = p
    /\ \E order \in Orders(Returned) :
          LET serial == SerialRun(order)
          IN  /\ serial.triggers = triggers
              /\ serial.events = events
              /\ \A p \in Returned : serial.replies[p] = reply[p]

\* All callers have returned, two of them changed the registry, and the
\* third, a FindAllActiveTriggerIds, saw the registry between the two changes.
C12_Witness ==
    /\ Returned = Procs
    /\ Len(events) = 2
    /\ \E q \in Procs :
          /\ ConcTasks[task[q]].op = "FindAllActiveTriggerIds"
          /\ reply[q].output # DOMAIN start
          /\ reply[q].output # DOMAIN triggers

\* A caller registering a one-shot trigger whose repeat policy is not
\* Exactly(1).
RejectedRegister(p) ==
    LET t == ConcTasks[task[p]]
    IN  /\ t.op = "Register"
        /\ IsOneShot(t.object.action)
        /\ t.object.action.repeats # ExactlyOne

\* C21: a Register of a one-shot trigger whose repeat policy is not Exactly(1)
\* never gets to modify_triggers: the caller neither waits for it nor is
\* inside it, and what it is given back is Math(Overflow), whether or not the
\* id is registered at the time.
C21_RejectedBeforeModify ==
    \A p \in Procs :
        RejectedRegister(p) =>
            /\ pc[p] \in {"start", "done"}
            /\ pc[p] = "done" => reply[p].result = Err(MathOverflow)

\* The rejected Register has returned while its id was registered all along:
\* the callers started with T1 registered and none of them has changed the
\* registry.
C21_Witness ==
    /\ "T1" \in DOMAIN start
    /\ triggers = start
    /\ events = <<>>
    /\ \A q \in Procs : pc[q] \in {"start", "done"}
    /\ \E p \in Procs :
          /\ RejectedRegister(p)
          /\ pc[p] = "done"
          /\ reply[p].result = Err(MathOverflow)

\* An event that may follow a stream in which the ids `ids` have a Created and
\* no Deleted after it: a Created for another id, anything else for one of them.
WellPlaced(ids, e) ==
    IF e.kind = "Created" THEN e.id \notin ids ELSE e.id \in ids

WellOrdered(ids, evs) ==
    \A k \in 1..Len(evs) :
        WellPlaced(AliveAfter(ids, SubSeq(evs, 1, k - 1)), evs[k])

\* C22: the events of one trigger id are well ordered. Every event that an
\* instruction emits continues the events emitted before it: a Created comes
\* first or after a Deleted of the id, an Extended, Shortened or Deleted comes
\* after a Created of the id with no Deleted in between.
C22_EventsWellOrdered ==
    [][steps' # steps => WellOrdered(alive, events')]_vars

\* A Deleted has been emitted for an id whose Created came before it.
C22_Witness ==
    /\ instr.op = "Unregister"
    /\ events = <<Deleted(InstrId)>>
    /\ InstrId \in DOMAIN before
    /\ InstrId \notin alive
    /\ steps >= 2

\* C23: Mint and Burn on an id that is not registered fail with the not-found
\* error for every amount, 0 and the largest included; no trigger is created
\* and no event is emitted.
C23_UnregisteredNotFound ==
    (instr.op \in {"Mint", "Burn"} /\ InstrId \notin DOMAIN before) =>
        /\ result = Err(FindTrigger)
        /\ triggers = before
        /\ events = <<>>

\* A Mint of the largest amount on an id that is not registered, while another
\* trigger is.
C23_Witness ==
    /\ instr.op = "Mint"
    /\ instr.object = U32Max
    /\ InstrId \notin DOMAIN before
    /\ before # <<>>
    /\ result = Err(FindTrigger)

\* The ids that were registered with no repetition left before the last call.
Exhausted ==
    {id \in DOMAIN before : before[id].repeats = Exactly(U32(0, 0))}

====
